---- MODULE Spec2Model ----
(***************************************************************************)
(* AbstractModel (src/src/mrsim/base/base.py): the parameter dispatch and  *)
(* the forward / Jacobian execution core of the MRI simulation base class. *)
(*                                                                         *)
(* A Python dict is an insertion-ordered mapping: it is modelled as a      *)
(* sequence of <<key, value>> pairs with distinct keys.  Argument values   *)
(* are opaque to the dispatch code (it never inspects them), so every      *)
(* value is a symbol that tells where it came from: a signature default,   *)
(* a user keyword argument, or a user positional argument.                 *)
(***************************************************************************)
EXTENDS Integers, Sequences, FiniteSets, TLC

\* Bounds of the explored calls.
MaxArgs == 2
MaxKw == 2
MaxDiffLen == 2

\* Parameter names; an engine signature uses a prefix of NameOrder, the
\* remaining names are foreign to it.
NameOrder == <<"T1", "T2", "TR">>
Names == {NameOrder[i] : i \in 1..Len(NameOrder)}

DefaultOf(name) == <<"default", name>>
KwValue(name) == <<"keyword", name>>
PositionLabel == <<"0", "1", "2", "3", "4", "5">>
PosValue(i) == <<"positional", PositionLabel[i]>>

----------------------------------------------------------------------------
\* Python dict and list primitives.

DictKeys(d) == [i \in 1..Len(d) |-> d[i][1]]
DictValues(d) == [i \in 1..Len(d) |-> d[i][2]]
KeySet(d) == {d[i][1] : i \in 1..Len(d)}
HasKey(d, k) == \E i \in 1..Len(d) : d[i][1] = k
IndexOfKey(d, k) == CHOOSE i \in 1..Len(d) : d[i][1] = k
DictGet(d, k) == d[IndexOfKey(d, k)][2]

\* d[k] = v: an existing key keeps its place, a new key is appended.
DictSetItem(d, k, v) ==
    IF HasKey(d, k)
    THEN [i \in 1..Len(d) |-> IF d[i][1] = k THEN <<k, v>> ELSE d[i]]
    ELSE Append(d, <<k, v>>)

\* {**d, **e}
RECURSIVE DictMerge(_, _)
DictMerge(d, e) ==
    IF e = <<>> THEN d
    ELSE DictMerge(DictSetItem(d, Head(e)[1], Head(e)[2]), Tail(e))

\* dict(zip(keys, values)): zip stops at the shorter of the two.
RECURSIVE DictZip(_, _)
DictZip(keys, values) ==
    IF keys = <<>> \/ values = <<>> THEN <<>>
    ELSE DictMerge(<<<<Head(keys), Head(values)>>>>,
                   DictZip(Tail(keys), Tail(values)))

\* {k: v for k, v in d.items() if (k in S) == keep}
DictFilter(d, S, keep) == SelectSeq(d, LAMBDA kv : (kv[1] \in S) = keep)

----------------------------------------------------------------------------
\* inspect.signature of an engine: its parameters in order, each with or
\* without a default.  Parameters with a default follow those without.

Signature(len, nreq) ==
    [i \in 1..len |-> [name |-> NameOrder[i], has_default |-> i > nreq]]

ParameterNames(signature) == [i \in 1..Len(signature) |-> signature[i].name]

DefaultArgs(signature) ==
    LET withDefault == SelectSeq(signature, LAMBDA p : p.has_default)
    IN  [i \in 1..Len(withDefault) |->
            <<withDefault[i].name, DefaultOf(withDefault[i].name)>>]

----------------------------------------------------------------------------
\* _get_argnums(diff, ARGS)

NoArgnums == [kind |-> "None", idx |-> <<>>]

\* Faulty variant of ArgMap: positions counted from one.
ArgMap_one_based(ARGS, k) == IndexOfKey(ARGS, k)

\* ARGMAP[k]: zero-based position of key k among the keys of ARGS.
ArgMap(ARGS, k) == IndexOfKey(ARGS, k) - 1

\* Faulty variant of GetArgnums: ARGMAP.get(d, 0) in place of ARGMAP[d].
GetArgnums_lenient(df, ARGS) ==
    LET at(k) == IF HasKey(ARGS, k) THEN ArgMap(ARGS, k) ELSE 0
    IN  IF df.kind = "str"
        THEN [exc |-> "none",
              argnums |-> [kind |-> "int", idx |-> <<at(df.names[1])>>]]
        ELSE IF df.kind \in {"tuple", "list"}
        THEN [exc |-> "none",
              argnums |-> [kind |-> "tuple",
                           idx |-> [i \in 1..Len(df.names) |-> at(df.names[i])]]]
        ELSE [exc |-> "ValueError", argnums |-> NoArgnums]

GetArgnums(df, ARGS) ==
    IF df.kind = "str"
    THEN IF HasKey(ARGS, df.names[1])
         THEN [exc |-> "none",
               argnums |-> [kind |-> "int", idx |-> <<ArgMap(ARGS, df.names[1])>>]]
         ELSE [exc |-> "KeyError", argnums |-> NoArgnums]
    ELSE IF df.kind \in {"tuple", "list"}
    THEN IF \A i \in 1..Len(df.names) : HasKey(ARGS, df.names[i])
         THEN [exc |-> "none",
               argnums |-> [kind |-> "tuple",
                            idx |-> [i \in 1..Len(df.names) |->
                                        ArgMap(ARGS, df.names[i])]]]
         ELSE [exc |-> "KeyError", argnums |-> NoArgnums]
    ELSE [exc |-> "ValueError", argnums |-> NoArgnums]

----------------------------------------------------------------------------
\* AbstractModel._get_func

\* Faulty variant of MergedKwargs: {**kwargs, **default_args}.
MergedKwargs_defaults_last(signature, kwargs) ==
    DictMerge(kwargs, DefaultArgs(signature))

\* merged_kwargs = {**default_args, **kwargs}
MergedKwargs(signature, kwargs) == DictMerge(DefaultArgs(signature), kwargs)

\* for idx, arg in enumerate(args): merged_kwargs[parameter_names[idx]] = arg
RECURSIVE PlacePositional(_, _, _, _)
PlacePositional(merged, parameter_names, args, idx) ==
    IF idx > Len(args) THEN merged
    ELSE PlacePositional(DictSetItem(merged, parameter_names[idx], args[idx]),
                         parameter_names, args, idx + 1)

BroadcastableArgs(merged, bparams) == DictFilter(merged, bparams, TRUE)

\* Faulty variant of NonBroadcastableArgs: the whole mapping, unfiltered.
NonBroadcastableArgs_unfiltered(merged, bparams) == merged

NonBroadcastableArgs(merged, bparams) == DictFilter(merged, bparams, FALSE)

GetFunc(signature, args, kwargs, bparams, df) ==
    IF Len(args) > Len(signature)
    THEN \* parameter_names[idx] is out of range
         [exc |-> "IndexError", merged_kwargs |-> <<>>,
          broadcastable_args |-> <<>>, non_broadcastable_args |-> <<>>,
          values |-> <<>>, argnums |-> NoArgnums]
    ELSE LET merged == PlacePositional(MergedKwargs(signature, kwargs),
                                       ParameterNames(signature), args, 1)
             bargs == BroadcastableArgs(merged, bparams)
             nargs == NonBroadcastableArgs(merged, bparams)
             an == IF df.kind # "None" THEN GetArgnums(df, bargs)
                   ELSE [exc |-> "none", argnums |-> NoArgnums]
         IN  [exc |-> an.exc, merged_kwargs |-> merged,
              broadcastable_args |-> bargs, non_broadcastable_args |-> nargs,
              values |-> IF an.exc = "none" THEN DictValues(bargs) ELSE <<>>,
              argnums |-> an.argnums]

----------------------------------------------------------------------------
\* The engine call and the callables built around it.

\* _func(**combined_args): Python binds every parameter from the keywords,
\* else from its default; an unknown keyword, or a parameter with neither,
\* is a TypeError raised before the engine body runs.
EngineCall(signature, combined) ==
    LET names == ParameterNames(signature)
        known == {names[i] : i \in 1..Len(names)}
        missing == {i \in 1..Len(signature) :
                        ~signature[i].has_default
                        /\ ~HasKey(combined, signature[i].name)}
    IN  IF ~(KeySet(combined) \subseteq known) \/ missing # {}
        THEN [exc |-> "TypeError", bound |-> <<>>]
        ELSE [exc |-> "none",
              bound |-> [i \in 1..Len(signature) |->
                            <<names[i],
                              IF HasKey(combined, names[i])
                              THEN DictGet(combined, names[i])
                              ELSE DefaultOf(names[i])>>]]

\* func(*args), the closure _get_func returns.
Func(gf, signature, inputs) ==
    LET broadcastable_mapping == DictZip(DictKeys(gf.broadcastable_args), inputs)
        combined_args == DictMerge(broadcastable_mapping, gf.non_broadcastable_args)
    IN  EngineCall(signature, combined_args)

\* jacfwd(argnums=argnums)(engine), from .decorators: the derivative of the
\* engine with respect to the inputs at argnums, evaluated on the same inputs.
Jacfwd(argnums) == [jacfwd |-> TRUE, argnums |-> argnums]
NoJacfwd == [jacfwd |-> FALSE, argnums |-> NoArgnums]

\* torch.vmap(f, chunk_size=self.chunk_size)(*inputs): f is applied to the
\* inputs, sample by sample; one record per vectorized evaluation.
Vmap(engine, transform, gf, signature, cs, inputs) ==
    LET r == Func(gf, signature, inputs)
    IN  [exc |-> r.exc, engine |-> engine, jacfwd |-> transform.jacfwd,
         argnums |-> transform.argnums, chunk_size |-> cs,
         inputs |-> inputs, bound |-> r.bound]

EmptyGf == [exc |-> "none", merged_kwargs |-> <<>>, broadcastable_args |-> <<>>,
            non_broadcastable_args |-> <<>>, values |-> <<>>,
            argnums |-> NoArgnums]

\* jacobian() returning None.
NoneFn == [exc |-> "none", path |-> "None", engine |-> "none",
           signature |-> <<>>, gf |-> EmptyGf, partial_args |-> <<>>]

\* functools.partial(vmapped, *broadcastable_args) around an engine closure.
Partial(path, engine, signature, gf) ==
    [exc |-> gf.exc, path |-> path, engine |-> engine, signature |-> signature,
     gf |-> gf, partial_args |-> gf.values]

\* AbstractModel.forward
Forward(signature, bparams, df, a, kw) ==
    Partial("forward", "_engine", signature, GetFunc(signature, a, kw, bparams, df))

\* _is_implemented(method): decided on the text of the method's source.
IsImplemented(source) == ~source.has_raise /\ ~source.has_pass

\* AbstractModel.jacobian
Jacobian(signature, jsignature, jsource, bparams, df, a, kw) ==
    IF df.kind = "None" THEN NoneFn
    ELSE IF IsImplemented(jsource)
    THEN Partial("manual", "_jacobian_engine", jsignature,
                 GetFunc(jsignature, a, kw, bparams, df))
    ELSE Partial("autodiff", "_engine", signature,
                 GetFunc(signature, a, kw, bparams, df))

\* fn(*a, **kw) for a callable built by forward() or jacobian(): the partial
\* prepends its stored values; vmapped_engine(*inputs) and
\* jacobian_engine(*inputs) take no keywords.
PartialCall(fn, cs, a, kw) ==
    IF kw # <<>>
    THEN [exc |-> "TypeError", evals |-> <<>>]
    ELSE LET e == Vmap(fn.engine,
                       IF fn.path = "autodiff" THEN Jacfwd(fn.gf.argnums)
                       ELSE NoJacfwd,
                       fn.gf, fn.signature, cs, fn.partial_args \o a)
         IN  [exc |-> e.exc, evals |-> <<e>>]

Raised(exc, evals, jpath) ==
    [exc |-> exc, shape |-> "raised", parts |-> <<>>, evals |-> evals,
     jacobian_path |-> jpath]

\* Faulty variant of ReturnOutput: return output, None.
ReturnOutput_with_none(output) ==
    [exc |-> "none", shape |-> "tuple", parts |-> output.evals,
     evals |-> output.evals, jacobian_path |-> "unbuilt"]

\* return output
ReturnOutput(output) ==
    [exc |-> "none", shape |-> "output", parts |-> output.evals,
     evals |-> output.evals, jacobian_path |-> "unbuilt"]

\* Faulty variant of ReturnPair: return jacobian_output, output.
ReturnPair_swapped(output, jacobian_output, jpath) ==
    [exc |-> "none", shape |-> "tuple",
     parts |-> jacobian_output.evals \o output.evals,
     evals |-> output.evals \o jacobian_output.evals,
     jacobian_path |-> jpath]

\* return output, jacobian_output
ReturnPair(output, jacobian_output, jpath) ==
    [exc |-> "none", shape |-> "tuple",
     parts |-> output.evals \o jacobian_output.evals,
     evals |-> output.evals \o jacobian_output.evals,
     jacobian_path |-> jpath]

\* AbstractModel.__call__
Call(signature, jsignature, jsource, bparams, df, cs, a, kw) ==
    LET forward_fn == Forward(signature, bparams, df, a, kw)
    IN  IF forward_fn.exc # "none" THEN Raised(forward_fn.exc, <<>>, "unbuilt")
        ELSE
        LET output == PartialCall(forward_fn, cs, a, kw)
        IN  IF output.exc # "none" THEN Raised(output.exc, output.evals, "unbuilt")
            ELSE IF df.kind = "None"
            THEN ReturnOutput(output)
            ELSE
            LET jacobian_fn == Jacobian(signature, jsignature, jsource,
                                        bparams, df, a, kw)
            IN  IF jacobian_fn.exc # "none"
                THEN Raised(jacobian_fn.exc, output.evals, "unbuilt")
                ELSE
                LET jacobian_output == PartialCall(jacobian_fn, cs, a, kw)
                IN  IF jacobian_output.exc # "none"
                    THEN Raised(jacobian_output.exc,
                                output.evals \o jacobian_output.evals,
                                jacobian_fn.path)
                    ELSE ReturnPair(output, jacobian_output, jacobian_fn.path)

----------------------------------------------------------------------------
\* State.

VARIABLES
    chunk_size, device, dtype, diff, broadcastable_params,  \* attributes of self
    engine_signature,      \* inspect.signature(self._engine)
    jacobian_signature,    \* inspect.signature(self._jacobian_engine)
    jacobian_source,       \* what the source text of _jacobian_engine holds
    pc,                    \* "idle", or the operation whose result is held
    args, kwargs,          \* the caller's arguments of that operation
    result,                \* what the operation returned or raised
    evaluated,             \* what invoking the returned callable gave
    again                  \* the result of the same operation, run once more

attributes == <<chunk_size, device, dtype, diff, broadcastable_params>>
definition == <<engine_signature, jacobian_signature, jacobian_source>>
vars == <<attributes, definition, pc, args, kwargs, result, evaluated, again>>

NotRun == [exc |-> "not run"]

\* Sequences of distinct names, of length 0..n.
DistinctSeqs(n) ==
    {s \in UNION {[1..m -> Names] : m \in 0..n} :
        \A i, j \in 1..Len(s) : i # j => s[i] # s[j]}

\* The user's positional arguments, 0..MaxArgs of them.
ArgsSet == {[i \in 1..n |-> PosValue(i)] : n \in 0..MaxArgs}

\* The user's keyword arguments, in the order written.
KwargsSet ==
    {[i \in 1..Len(s) |-> <<s[i], KwValue(s[i])>>] : s \in DistinctSeqs(MaxKw)}

\* diff: None, a name, a tuple or list of names, or a value of another type.
DiffNone == [kind |-> "None", names |-> <<>>]
DiffOther == [kind |-> "other", names |-> <<>>]
Diffs ==
    {DiffNone, DiffOther}
    \cup {[kind |-> "str", names |-> <<n>>] : n \in Names}
    \cup {[kind |-> k, names |-> s] : k \in {"tuple", "list"},
                                      s \in DistinctSeqs(MaxDiffLen)}

\* Sources of _jacobian_engine: the base class stub, a subclass stub, a
\* manual Jacobian, and a manual Jacobian whose text contains "pass".
BaseSource == [implements |-> FALSE, has_raise |-> TRUE, has_pass |-> FALSE]
StubSource == [implements |-> FALSE, has_raise |-> FALSE, has_pass |-> TRUE]
ManualSource == [implements |-> TRUE, has_raise |-> FALSE, has_pass |-> FALSE]
ManualPassSource == [implements |-> TRUE, has_raise |-> FALSE, has_pass |-> TRUE]

\* AbstractModel.__init__(chunk_size, device, diff)
Construct(cs, dev, df, set_properties) ==
    /\ chunk_size = cs
    /\ device = (IF dev # "None" THEN dev ELSE "cpu")
    /\ dtype = "float32"
    /\ diff = df
    /\ broadcastable_params = set_properties

Idle ==
    /\ pc = "idle"
    /\ args = <<>>
    /\ kwargs = <<>>
    /\ result = NotRun
    /\ evaluated = NotRun
    /\ again = NotRun

\* Models whose Jacobian engine is the base class stub.
Init ==
    /\ \E df \in Diffs, sp \in SUBSET Names : Construct(2, "None", df, sp)
    /\ engine_signature \in {Signature(3, 2), Signature(3, 1),
                             Signature(2, 0), Signature(1, 1)}
    /\ jacobian_signature = <<>>
    /\ jacobian_source = BaseSource
    /\ Idle

\* Models with each kind of Jacobian engine.
InitJacobian ==
    /\ \E cs \in {1, 2}, dev \in {"None", "cuda"},
          df \in {DiffNone, DiffOther, [kind |-> "str", names |-> <<"T2">>],
                  [kind |-> "tuple", names |-> <<"T2", "T1">>]} :
          Construct(cs, dev, df, {"T1", "T2"})
    /\ engine_signature \in {Signature(3, 2), Signature(2, 0)}
    /\ jacobian_source \in {BaseSource, StubSource, ManualSource, ManualPassSource}
    /\ jacobian_signature \in
          IF jacobian_source.implements
          THEN {Signature(3, 2), Signature(2, 1)} ELSE {<<>>}
    /\ Idle

----------------------------------------------------------------------------
\* Operations.

Run(op, a, kw) ==
    CASE op = "_get_func" ->
            GetFunc(engine_signature, a, kw, broadcastable_params, diff)
      [] op = "forward" ->
            Forward(engine_signature, broadcastable_params, diff, a, kw)
      [] op = "jacobian" ->
            Jacobian(engine_signature, jacobian_signature, jacobian_source,
                     broadcastable_params, diff, a, kw)
      [] op = "__call__" ->
            Call(engine_signature, jacobian_signature, jacobian_source,
                 broadcastable_params, diff, chunk_size, a, kw)

\* Faulty variant of Begin: the call narrows self.broadcastable_params to the
\* names it was given.
Begin_narrowing(op, a, kw) ==
    /\ pc = "idle"
    /\ pc' = op
    /\ args' = a
    /\ kwargs' = kw
    /\ result' = Run(op, a, kw)
    /\ broadcastable_params' = broadcastable_params \cap KeySet(kw)
    /\ UNCHANGED <<chunk_size, device, dtype, diff, definition, evaluated, again>>

\* One operation of the model, called by the user with a and kw.
Begin(op, a, kw) ==
    /\ pc = "idle"
    /\ pc' = op
    /\ args' = a
    /\ kwargs' = kw
    /\ result' = Run(op, a, kw)
    /\ UNCHANGED <<attributes, definition, evaluated, again>>

\* self._get_func(self._engine, *a, **kw)
GetFuncCall == \E a \in ArgsSet, kw \in KwargsSet : Begin("_get_func", a, kw)

\* self.forward(*a, **kw)
ForwardCall == \E a \in ArgsSet, kw \in KwargsSet : Begin("forward", a, kw)

\* self.jacobian(*a, **kw)
JacobianCall == \E a \in ArgsSet, kw \in KwargsSet : Begin("jacobian", a, kw)

\* self(*a, **kw)
ModelCall == \E a \in ArgsSet, kw \in KwargsSet : Begin("__call__", a, kw)

\* The callable forward() or jacobian() returned, invoked with no further
\* inputs.
Invoke ==
    /\ pc \in {"forward", "jacobian"}
    /\ result.exc = "none"
    /\ result.path # "None"
    /\ evaluated = NotRun
    /\ again = NotRun
    /\ evaluated' = PartialCall(result, chunk_size, <<>>, <<>>)
    /\ UNCHANGED <<attributes, definition, pc, args, kwargs, result, again>>

\* The caller makes the same call a second time.
Repeat ==
    /\ pc # "idle"
    /\ evaluated = NotRun
    /\ again = NotRun
    /\ again' = Run(pc, args, kwargs)
    /\ UNCHANGED <<attributes, definition, pc, args, kwargs, result, evaluated>>

\* The caller drops the result.
Return ==
    /\ pc # "idle"
    /\ pc' = "idle"
    /\ args' = <<>>
    /\ kwargs' = <<>>
    /\ result' = NotRun
    /\ evaluated' = NotRun
    /\ again' = NotRun
    /\ UNCHANGED <<attributes, definition>>

Next ==
    \/ GetFuncCall
    \/ ForwardCall
    \/ JacobianCall
    \/ ModelCall
    \/ Invoke
    \/ Repeat
    \/ Return

Spec == Init /\ [][Next]_vars
SpecJacobian == InitJacobian /\ [][Next]_vars

----------------------------------------------------------------------------
\* Properties.

\* C1: _get_func splits the merged argument mapping (signature defaults, then
\* keyword arguments, then positional arguments) into two disjoint groups
\* whose union is the whole mapping; an argument is in the broadcastable
\* group iff its name is in broadcastable_params.
GetFuncPartitionsMerged ==
    (pc = "_get_func" /\ result.exc # "IndexError") =>
        LET m == result.merged_kwargs
            b == result.broadcastable_args
            n == result.non_broadcastable_args
            names == ParameterNames(engine_signature)
            positional == {names[i] : i \in 1..Len(args)}
        IN  /\ KeySet(m) = KeySet(DefaultArgs(engine_signature))
                              \cup KeySet(kwargs) \cup positional
            /\ \A i \in 1..Len(m) :
                  m[i][2] = IF \E j \in 1..Len(args) : names[j] = m[i][1]
                            THEN args[CHOOSE j \in 1..Len(args) : names[j] = m[i][1]]
                            ELSE IF HasKey(kwargs, m[i][1])
                            THEN DictGet(kwargs, m[i][1])
                            ELSE DefaultOf(m[i][1])
            /\ KeySet(b) \cap KeySet(n) = {}
            /\ Len(b) + Len(n) = Len(m)
            /\ \A i \in 1..Len(m) :
                  /\ (m[i][1] \in broadcastable_params)
                        <=> (\E j \in 1..Len(b) : b[j] = m[i])
                  /\ (m[i][1] \notin broadcastable_params)
                        <=> (\E j \in 1..Len(n) : n[j] = m[i])

\* A split with both groups non-empty, from positional and keyword arguments.
GetFuncPartitionsMerged_witness ==
    /\ pc = "_get_func"
    /\ result.exc = "none"
    /\ args # <<>>
    /\ kwargs # <<>>
    /\ result.broadcastable_args # <<>>
    /\ result.non_broadcastable_args # <<>>

ForwardBindsByPrecedence ==
    (pc = "forward" /\ evaluated # NotRun /\ evaluated.exc = "none") =>
        LET e == evaluated.evals[1]
            names == ParameterNames(engine_signature)
        IN  /\ Len(evaluated.evals) = 1
            /\ e.engine = "_engine"
            /\ ~e.jacfwd
            /\ DictKeys(e.bound) = names
            /\ \A i \in 1..Len(names) :
                  e.bound[i][2] = IF i <= Len(args) THEN args[i]
                                  ELSE IF HasKey(kwargs, names[i])
                                  THEN DictGet(kwargs, names[i])
                                  ELSE DefaultOf(names[i])

\* An evaluation in which one parameter has a default, a keyword argument and
\* a positional argument, and another is broadcastable and from a keyword.
ForwardBindsByPrecedence_witness ==
    /\ pc = "forward"
    /\ evaluated # NotRun
    /\ evaluated.exc = "none"
    /\ engine_signature[1].has_default
    /\ Len(args) = 1
    /\ HasKey(kwargs, "T1")
    /\ HasKey(kwargs, "T2")
    /\ "T2" \in broadcastable_params

\* C5: the argnums of _get_func index the returned list of broadcastable
\* values at the diff-named parameters: one index for a string diff, a tuple
\* of k indices in the order of diff for a tuple or list of k names.
ArgnumsSelectDiff ==
    (pc = "_get_func" /\ result.exc = "none" /\ diff.kind # "None") =>
        LET idx == result.argnums.idx
            vals == result.values
            keys == DictKeys(result.broadcastable_args)
        IN  /\ result.argnums.kind = (IF diff.kind = "str" THEN "int" ELSE "tuple")
            /\ Len(idx) = Len(diff.names)
            /\ \A i \in 1..Len(idx) :
                  /\ idx[i] \in 0..(Len(vals) - 1)
                  /\ keys[idx[i] + 1] = diff.names[i]
                  /\ vals[idx[i] + 1] = DictGet(result.merged_kwargs, diff.names[i])

\* A tuple diff whose order differs from the order of the values.
ArgnumsSelectDiff_witness ==
    /\ pc = "_get_func"
    /\ result.exc = "none"
    /\ diff.kind = "tuple"
    /\ result.argnums.idx = <<1, 0>>
    /\ args # <<>>

\* C6, as claimed: a call evaluates the vectorized engine on exactly the
\* broadcastable values _get_func returned, and keyword arguments do not make
\* the call fail.
CallEvaluatesBroadcastableOnly ==
    LET fwd == Forward(engine_signature, broadcastable_params, diff, args, kwargs)
    IN  (pc = "__call__" /\ fwd.exc = "none") =>
            /\ result.evals # <<>>
            /\ \A i \in 1..Len(result.evals) :
                  /\ result.evals[i].inputs = fwd.partial_args
                  /\ Len(result.evals[i].inputs) = Len(fwd.gf.broadcastable_args)

\* C7, as claimed: with diff not None, jacobian() takes the manual path when
\* the subclass implements _jacobian_engine and the automatic one otherwise.
JacobianPathByImplementation ==
    (pc = "jacobian" /\ diff.kind # "None" /\ result.exc = "none") =>
        /\ result.path \in {"manual", "autodiff"}
        /\ jacobian_source.implements =>
              result.path = "manual" /\ result.engine = "_jacobian_engine"
        /\ ~jacobian_source.implements =>
              result.path = "autodiff" /\ result.engine = "_engine"
        /\ (evaluated # NotRun /\ jacobian_source.implements) =>
              \A i \in 1..Len(evaluated.evals) :
                  /\ evaluated.evals[i].engine = "_jacobian_engine"
                  /\ ~evaluated.evals[i].jacfwd

InvalidDiffRejected ==
    [][(pc' \in {"forward", "jacobian", "__call__"}) =>
          LET b == GetFunc(engine_signature, args', kwargs',
                           broadcastable_params, DiffNone).broadcastable_args
              unnamed == /\ Len(args') <= Len(engine_signature)
                         /\ \E i \in 1..Len(diff.names) : ~HasKey(b, diff.names[i])
          IN  /\ diff.kind = "other" => result'.exc = "ValueError"
              /\ (diff.kind \in {"str", "tuple", "list"} /\ unnamed) =>
                    result'.exc = "KeyError"
              /\ (diff.kind = "other" \/ unnamed) =>
                    /\ evaluated' = NotRun
                    /\ pc' = "__call__" => result'.evals = <<>>
                    /\ attributes' = attributes]_vars

\* C9, amended: as claimed, except that a call with more positional
\* arguments than the engine has parameters raises IndexError first.
InvalidDiffRejectedOrIndexError ==
    [][(pc' \in {"forward", "jacobian", "__call__"}) =>
          LET b == GetFunc(engine_signature, args', kwargs',
                           broadcastable_params, DiffNone).broadcastable_args
              overflow == Len(args') > Len(engine_signature)
              unnamed == /\ ~overflow
                         /\ \E i \in 1..Len(diff.names) : ~HasKey(b, diff.names[i])
          IN  /\ (diff.kind # "None" /\ overflow) => result'.exc = "IndexError"
              /\ diff.kind = "other" =>
                    result'.exc = IF overflow THEN "IndexError" ELSE "ValueError"
              /\ (diff.kind \in {"str", "tuple", "list"} /\ unnamed) =>
                    result'.exc = "KeyError"
              /\ (diff.kind = "other" \/ unnamed \/ (diff.kind # "None" /\ overflow)) =>
                    /\ evaluated' = NotRun
                    /\ pc' = "__call__" => result'.evals = <<>>
                    /\ attributes' = attributes]_vars

\* A call rejected for a diff of another type, and one rejected for a diff
\* naming a parameter that is not broadcastable in the call.
InvalidDiffRejectedOrIndexError_witness ==
    /\ pc = "__call__"
    /\ diff.kind = "tuple"
    /\ result.exc = "KeyError"
    /\ args # <<>>
    /\ kwargs # <<>>

====
